---- MODULE Spec2Model ----
(***************************************************************************)
(* ContainerPlugin (src/unnamed/part_000) and the Learning plugin          *)
(* (src/src/learning/LearningPlugin.js) as one state machine.              *)
(*                                                                         *)
(* Every handler of the two plugins is an operator from a state record to  *)
(* a state record, composed the way the JavaScript calls compose: the      *)
(* application's trigger() runs its listeners synchronously, a listener    *)
(* may trigger again, endGame() triggers and then destroys.  An action of  *)
(* the state machine is one entry from the outside (a bus event, a message *)
(* from the container, a browser callback, a call by the game) run to      *)
(* completion.  A TypeError raised by a call on a null reference aborts    *)
(* the rest of the entry, as the uncaught exception does in the browser.   *)
(*                                                                         *)
(* The collaborators the plugins are handed are modelled by their          *)
(* contracts: the bus keeps its subscriptions in order, delivers a         *)
(* trigger() to them before it returns and drops a once() subscription as  *)
(* it is delivered; destroy() runs the teardown of every plugin, each time *)
(* it is called; the messenger and the dispatcher are logs of the calls    *)
(* made on them.                                                           *)
(***************************************************************************)
EXTENDS Integers, Sequences, FiniteSets, TLC

\* ---------------------------------------------------------------- bounds
\* number of entries (events, messages, callbacks, calls) that are explored
MaxSteps == 3

\* ---------------------------------------------------------------- inputs
\* payloads of learningEvent / analyticEvent
Data == {"d1", "d2"}
\* the JavaScript undefined (an argument that was not given)
NoData == "undefined"
\* exit types a caller hands to endGame(); "undefined" is the call endGame()
ExitArgs == {"undefined", "custom_exit"}
\* configurations handed to `configLoaded`
Configs == {[spec |-> "undefined", specDictionary |-> "dict1"],
            [spec |-> "spec1", specDictionary |-> "undefined"],
            [spec |-> "spec2", specDictionary |-> "dict1"]}
\* learningEvents the dispatcher emits inside startGame() / endGame()
EmitChoices == {<<>>, <<"d1">>}
\* the order in which destroy() runs the two teardowns
TeardownOrders == {<<"container", "learning">>, <<"learning", "container">>}
\* initial options: options.singlePlay and options.playOptions
\* an object is the set of its <<key, value>> pairs; null is kept apart
NullObject == [isNull |-> TRUE, kv |-> {}]
Object(pairs) == [isNull |-> FALSE, kv |-> pairs]
OptionChoices == {[singlePlay |-> FALSE, playOptions |-> NullObject],
                  [singlePlay |-> TRUE, playOptions |-> Object({<<"a", 1>>})]}
\* optional subsystems present on the application, and the sound contexts
\* for which sound.contextExists() answers true
\* "textField" is captions.textField, "nodeName" that it is a DOM element
FullSubsystems == {"sound", "captions", "textField", "nodeName", "hints",
                   "music", "vo"}
SubsystemChoices == {FullSubsystems, {"captions", "textField"}, {}}
\* the subsystems are read by the supported branch of preload and by the
\* inbound handlers it registers, and nowhere else: with an unsupported
\* messenger one choice stands for all
SubsystemsFor(sup) == IF sup THEN SubsystemChoices ELSE {FullSubsystems}
\* the sound contexts the container mutes one by one
Contexts == {"music", "vo", "sfx"}
\* the data of a `pause` or `...Muted` message, as JavaScript writes the value
FlagData == {"true", "false", "undefined"}
\* the data of a `captionsStyles` message
StyleChoices == {[size |-> "lg", background |-> "black", color |-> "white",
                  edge |-> "none", font |-> "arial", align |-> "left"],
                 [size |-> "sm", background |-> "none", color |-> "red",
                  edge |-> "drop", font |-> "mono", align |-> "top"]}
\* the data of a `playOptions` message: an object, or none
PlayOptionsData == {NullObject, Object({<<"b", 2>>}), Object({<<"a", 3>>})}

VARIABLES
    supported,          \* Bellhop.supported
    messenger,          \* this.messenger: "Bellhop" or "null"
    messengerDestroyed, \* the Bellhop object has been destroy()ed
    sent,               \* every call of send() on the Bellhop object, in order
    sentAfterDestroy,   \* some send() was called on the destroyed Bellhop object
    handlers,           \* messenger.on({...}) has registered the inbound handlers
    autoPause,          \* this.autoPause
    pageVisibility,     \* this._pageVisibility: "PageVisibility" or "null"
    watcher,            \* the PageVisibility object: "none", "enabled", "destroyed"
    singlePlay,         \* this.singlePlay
    playOptions,        \* this.playOptions
    options,            \* this.options (singlePlay, playOptions)
    subsystems,         \* which of this.sound, this.captions, this.hints exist,
                        \* and which sound contexts exist
    paused,             \* this.paused
    enabled,            \* this.enabled
    soundMuteAll,       \* this.sound.muteAll
    contextMute,        \* the mute flag sound.setContextMute gave each context
    captionsMuteAll,    \* this.captions.muteAll
    className,          \* this.captions.textField.className
    teardownOrder,      \* the order in which destroy() runs the plugins' teardowns
    onunload,           \* window.onunload holds the handler
    onbeforeunload,     \* window.onbeforeunload holds the handler
    listeners,          \* the application bus: subscriptions in order
    learning,           \* this.learning: "Learning" or "null"
    learningMap,        \* the dispatcher's dictionary: "unset" or addMap's argument
    learningSpec,       \* the dispatcher's spec: "unset" or the value assigned
    learningCalls,      \* every call on the dispatcher, in order
    preloaded,          \* preload has called done()
    endGameEvents,      \* the exit reason of every `endGame` event triggered
    busLog,             \* every event triggered on the bus: its name and data
    inbound,            \* the names of the container's messages that were handled
    destroyCalls,       \* number of calls of the application's destroy()
    errors,             \* the sites at which a TypeError was raised
    last,               \* the last entry: its call and the effects it had, in order
    steps               \* number of entries so far

vars == <<supported, messenger, messengerDestroyed, sent, sentAfterDestroy,
          handlers, autoPause, pageVisibility, watcher, singlePlay, playOptions,
          options, subsystems, paused, enabled, soundMuteAll, contextMute,
          captionsMuteAll, className, teardownOrder, onunload, onbeforeunload,
          listeners, learning, learningMap, learningSpec, learningCalls,
          preloaded, endGameEvents,
          busLog, inbound, destroyCalls, errors, last, steps>>

\* ------------------------------------------------------- the state record
\* The state an entry starts from: the variables, an empty effect trace, no
\* exception in flight, and the entry's nondeterministic inputs.
Cur(emit) ==
    [supported |-> supported, messenger |-> messenger,
     messengerDestroyed |-> messengerDestroyed, sent |-> sent,
     sentAfterDestroy |-> sentAfterDestroy, handlers |-> handlers,
     autoPause |-> autoPause, pageVisibility |-> pageVisibility,
     watcher |-> watcher, singlePlay |-> singlePlay, playOptions |-> playOptions,
     options |-> options, subsystems |-> subsystems,
     paused |-> paused, enabled |-> enabled, soundMuteAll |-> soundMuteAll,
     contextMute |-> contextMute, captionsMuteAll |-> captionsMuteAll,
     className |-> className,
     teardownOrder |-> teardownOrder, onunload |-> onunload,
     onbeforeunload |-> onbeforeunload, listeners |-> listeners,
     learning |-> learning, learningMap |-> learningMap,
     learningSpec |-> learningSpec, learningCalls |-> learningCalls,
     preloaded |-> preloaded, endGameEvents |-> endGameEvents, busLog |-> busLog,
     inbound |-> inbound,
     destroyCalls |-> destroyCalls, errors |-> errors,
     trace |-> <<>>, thrown |-> FALSE, emit |-> emit]

\* one effect on a collaborator, appended to the entry's trace
Effect(s, kind, name, data) ==
    [s EXCEPT !.trace = Append(@, [kind |-> kind, name |-> name, data |-> data])]

\* a call on a null reference: TypeError, the rest of the entry is skipped
Throw(s, site) ==
    [Effect(s, "TypeError", site, NoData) EXCEPT !.thrown = TRUE,
                                                 !.errors = @ \cup {site}]

\* ------------------------------------------------------------- messenger
\* Bellhop.send(name, data) on the Bellhop object itself
BellhopSend(s, name, data) ==
    [Effect(s, "send", name, data) EXCEPT
        !.sent = Append(@, [name |-> name, data |-> data]),
        !.sentAfterDestroy = @ \/ s.messengerDestroyed]

\* this.messenger.send(name, data): a TypeError when this.messenger is null
MessengerSend(s, site, name, data) ==
    IF s.thrown THEN s
    ELSE IF s.messenger = "null" THEN Throw(s, site)
    ELSE BellhopSend(s, name, data)

\* ------------------------------------------- ContainerPlugin bus listeners
\* (mutant) the listener forwards the event without its data
OnLearningEvent_DropsData(s, data) ==
    MessengerSend(s, "learningEvent", "learningEvent", NoData)

\* this.on('learningEvent', ...)
OnLearningEvent(s, data) == MessengerSend(s, "learningEvent", "learningEvent", data)

\* this.on('analyticEvent', ...)
OnAnalyticEvent(s, data) == MessengerSend(s, "analyticEvent", "analyticEvent", data)

\* this.once('loaded', ...)
OnLoaded(s, data) == MessengerSend(s, "loaded", "loadDone", NoData)

\* ------------------------------------------------------ the dispatcher
\* config.specDictionary || null
OrNull(x) == IF x = "undefined" THEN "null" ELSE x

\* exitType || 'game_completed'
OrGameCompleted(exitType) ==
    IF exitType = "undefined" THEN "game_completed" ELSE exitType

\* a call of a method of the dispatcher, logged
LearningCall(s, method, arg) ==
    [Effect(s, "learning", method, arg) EXCEPT
        !.learningCalls = Append(@, [method |-> method, arg |-> arg])]

\* this.once('configLoaded', ...)
OnConfigLoaded(s, config) ==
    IF s.thrown THEN s
    ELSE IF config.spec # "undefined"
    THEN IF s.learning = "null" THEN Throw(s, "configLoaded")
         ELSE [LearningCall(s, "addMap", OrNull(config.specDictionary)) EXCEPT
                  !.learningMap = OrNull(config.specDictionary),
                  !.learningSpec = config.spec]
    ELSE s

\* ------------------------------------------------------ application bus
RECURSIVE Trigger(_, _, _)
RECURSIVE LearningEmit(_, _)
RECURSIVE Deliver(_, _, _)

\* this.learning.on('learningEvent', ...): the dispatcher's event is bubbled
\* up as the application's event of the same name, with the same data
BubbleLearningEvent(s, data) == Trigger(s, "learningEvent", data)

\* the dispatcher emits `events`, one learningEvent after the other
LearningEmit(s, events) ==
    IF events = <<>> \/ s.thrown THEN s
    ELSE LearningEmit(
             BubbleLearningEvent(Effect(s, "emit", "learningEvent", Head(events)),
                                 Head(events)),
             Tail(events))

\* the dispatcher's endGame(exitType) and startGame(): the call, and the
\* learningEvents the dispatcher emits while it runs
LearningEndGame(s, exitType) ==
    LearningEmit(LearningCall(s, "endGame", exitType), s.emit)

LearningStartGame(s) ==
    LearningEmit(LearningCall(s, "startGame", NoData), s.emit)

\* this.once('endGame', ...)
OnEndGame(s, exitType) ==
    IF s.thrown THEN s
    ELSE IF s.learning = "null" THEN Throw(s, "endGame")
    ELSE LearningEndGame(s, exitType)

\* this.once('init', ...)
OnInit(s, data) ==
    IF s.thrown THEN s
    ELSE IF s.learning = "null" THEN Throw(s, "init")
    ELSE LearningStartGame(s)

\* the call of one listener, by its id
Handler(s, id, data) ==
    CASE id = "container.learningEvent" -> OnLearningEvent(s, data)
      [] id = "container.analyticEvent" -> OnAnalyticEvent(s, data)
      [] id = "container.loaded" -> OnLoaded(s, data)
      [] id = "learning.configLoaded" -> OnConfigLoaded(s, data)
      [] id = "learning.endGame" -> OnEndGame(s, data)
      [] id = "learning.init" -> OnInit(s, data)
      [] OTHER -> s

\* the listeners `ls` of one trigger() are called in order; a single-shot
\* subscription is removed as it is delivered
Deliver(s, ls, data) ==
    IF ls = <<>> \/ s.thrown THEN s
    ELSE LET l == Head(ls)
             s1 == IF l.once
                   THEN [s EXCEPT !.listeners = SelectSeq(@, LAMBDA x : x # l)]
                   ELSE s
         IN Deliver(Handler(s1, l.id, data), Tail(ls), data)

\* what the logs keep of one trigger(): the event's name and data, and the
\* exit reason of an `endGame`
Logged(s, type, data) ==
    [s EXCEPT !.busLog = Append(@, [name |-> type, data |-> data]),
              !.endGameEvents = IF type = "endGame" THEN Append(@, data) ELSE @]

\* trigger(type, data)
Trigger(s, type, data) ==
    IF s.thrown THEN s
    ELSE Deliver(Logged(Effect(s, "trigger", type, data), type, data),
                 SelectSeq(s.listeners, LAMBDA l : l.type = type), data)

\* on(type, listener) and once(type, listener)
On(s, type, id) ==
    [s EXCEPT !.listeners = Append(@, [type |-> type, id |-> id, once |-> FALSE])]

Once(s, type, id) ==
    [s EXCEPT !.listeners = Append(@, [type |-> type, id |-> id, once |-> TRUE])]

\* ------------------------------------------------------------ teardown
\* (mutant) the messenger is destroyed before the final message is sent
ContainerTeardown_DestroysFirst(s) ==
    LET s0 == Effect(s, "teardown", "container", NoData)
        s1 == IF s0.pageVisibility # "null"
              THEN [Effect(s0, "pageVisibility", "destroy", NoData) EXCEPT
                       !.watcher = "destroyed", !.pageVisibility = "null"]
              ELSE s0
        s2 == IF s1.messenger = "null" THEN Throw(s1, "teardown")
              ELSE [Effect(s1, "messenger", "destroy", NoData) EXCEPT
                       !.messengerDestroyed = TRUE]
        s3 == MessengerSend(s2, "teardown", "endGame", NoData)
    IN IF s3.thrown THEN s3 ELSE [s3 EXCEPT !.messenger = "null"]

\* (mutant) the messenger is neither destroyed nor released
ContainerTeardown_KeepsMessenger(s) ==
    LET s0 == Effect(s, "teardown", "container", NoData)
        s1 == IF s0.pageVisibility # "null"
              THEN [Effect(s0, "pageVisibility", "destroy", NoData) EXCEPT
                       !.watcher = "destroyed", !.pageVisibility = "null"]
              ELSE s0
    IN MessengerSend(s1, "teardown", "endGame", NoData)

\* ContainerPlugin's p.teardown
ContainerTeardown(s) ==
    LET s0 == Effect(s, "teardown", "container", NoData)
        s1 == IF s0.pageVisibility # "null"
              THEN [Effect(s0, "pageVisibility", "destroy", NoData) EXCEPT
                       !.watcher = "destroyed", !.pageVisibility = "null"]
              ELSE s0
        s2 == MessengerSend(s1, "teardown", "endGame", NoData)
    IN IF s2.thrown THEN s2
       ELSE [Effect(s2, "messenger", "destroy", NoData) EXCEPT
                !.messengerDestroyed = TRUE, !.messenger = "null"]

\* (mutant) the dispatcher is destroyed but the reference is kept
LearningTeardown_KeepsReference(s) ==
    IF s.learning # "null"
    THEN LearningCall(Effect(s, "teardown", "learning", NoData), "destroy", NoData)
    ELSE Effect(s, "teardown", "learning", NoData)

\* the Learning plugin's plugin.teardown
LearningTeardown(s) ==
    IF s.learning # "null"
    THEN [LearningCall(Effect(s, "teardown", "learning", NoData),
                       "destroy", NoData) EXCEPT !.learning = "null"]
    ELSE Effect(s, "teardown", "learning", NoData)

\* one plugin's teardown
Teardown(s, plugin) ==
    IF s.thrown THEN s
    ELSE IF plugin = "container" THEN ContainerTeardown(s)
    ELSE LearningTeardown(s)

\* the application's destroy(): the teardown of every plugin
Destroy(s) ==
    IF s.thrown THEN s
    ELSE Teardown(Teardown([Effect(s, "destroy", "application", NoData) EXCEPT
                               !.destroyCalls = @ + 1],
                           s.teardownOrder[1]),
                  s.teardownOrder[2])

\* ------------------------------------------- ContainerPlugin's operations
\* (mutant) the application is destroyed before the event is triggered
endGame_DestroysFirst(s, exitType) ==
    Trigger(Destroy(s), "endGame", OrGameCompleted(exitType))

\* this.endGame(exitType)
endGame(s, exitType) == Destroy(Trigger(s, "endGame", OrGameCompleted(exitType)))

\* (mutant) the test of singlePlay is inverted
singlePlayEnd_Inverted(s) == IF ~s.singlePlay THEN endGame(s, "undefined") ELSE s

\* (mutant) the game is ended whatever singlePlay is
singlePlayEnd_Always(s) == endGame(s, "undefined")

\* this.singlePlayEnd()
singlePlayEnd(s) == IF s.singlePlay THEN endGame(s, "undefined") ELSE s

\* (mutant) only window.onunload is cleared
onWindowUnload_ClearsOne(s) ==
    endGame([Effect(s, "window", "clearHooks", NoData) EXCEPT !.onunload = FALSE],
            "left_site")

\* onWindowUnload: both hooks are cleared, then endGame('left_site')
onWindowUnload(s) ==
    endGame([Effect(s, "window", "clearHooks", NoData) EXCEPT
                !.onunload = FALSE, !.onbeforeunload = FALSE],
            "left_site")

\* this.options.playOptions || {}, e.data || {}
OrEmptyObject(o) == IF o.isNull THEN Object({}) ELSE o

\* a message of the container is handed to its handler
Received(s, name) == [s EXCEPT !.inbound = Append(@, name)]

\* !!e.data: false for false, undefined, null, 0 and the empty string
ToBoolean(v) == v \notin {"false", "undefined", "null", "0", ""}

\* (mutant) enabled is given the value of paused
onPause_SameFlag(s, data) ==
    [s EXCEPT !.paused = ToBoolean(data), !.enabled = ToBoolean(data)]

\* onPause
onPause(s, data) ==
    [s EXCEPT !.paused = ToBoolean(data), !.enabled = ~ToBoolean(data)]

\* onSoundMuted: this.sound.muteAll = ..., a TypeError without this.sound
onSoundMuted(s, data) ==
    IF "sound" \notin s.subsystems THEN Throw(s, "soundMuted")
    ELSE [s EXCEPT !.soundMuteAll = ToBoolean(data)]

\* onCaptionsMuted: this.captions.muteAll = ..., a TypeError without
\* this.captions
onCaptionsMuted(s, data) ==
    IF "captions" \notin s.subsystems THEN Throw(s, "captionsMuted")
    ELSE [s EXCEPT !.captionsMuteAll = ToBoolean(data)]

\* sound.setContextMute(context, muted)
SetContextMute(s, context, muted) ==
    [Effect(s, "sound", "setContextMute", context) EXCEPT
        !.contextMute[context] = muted]

\* onContextMuted, bound to its context: a TypeError without this.sound
onContextMuted(s, context, data) ==
    IF "sound" \notin s.subsystems THEN Throw(s, "contextMuted")
    ELSE SetContextMute(s, context, ToBoolean(data))

\* the class string of the styles
StyleClass(styles) ==
    "size-" \o styles.size \o " " \o
    "bg-" \o styles.background \o " " \o
    "color-" \o styles.color \o " " \o
    "edge-" \o styles.edge \o " " \o
    "font-" \o styles.font \o " " \o
    "align-" \o styles.align

\* (this.captions || {}).textField || null, and it is a DOM element
HasTextField(s) ==
    /\ "captions" \in s.subsystems
    /\ "textField" \in s.subsystems
    /\ "nodeName" \in s.subsystems

\* (mutant) the styles are added to the class string the element has
onCaptionsStyles_Appends(s, styles) ==
    IF HasTextField(s)
    THEN [s EXCEPT !.className = IF @ = "" THEN StyleClass(styles)
                                 ELSE @ \o " " \o StyleClass(styles)]
    ELSE s

\* onCaptionsStyles
onCaptionsStyles(s, styles) ==
    IF HasTextField(s) THEN [s EXCEPT !.className = StyleClass(styles)]
    ELSE s

\* the keys of an object
Keys(o) == {p[1] : p \in o.kv}

\* Object.merge(target, source): target is given every property of source
Merge(target, source) ==
    [target EXCEPT !.kv = {p \in @ : p[1] \notin Keys(source)} \cup source.kv]

\* (mutant) the message's data replaces the play options
onPlayOptions_Replaces(s, data) ==
    LET merged == OrEmptyObject(data)
    IN [s EXCEPT !.playOptions = merged,
                 !.options.playOptions = IF @.isNull THEN @ ELSE merged]

\* onPlayOptions: the merge changes the object this.playOptions refers to,
\* which is options.playOptions when the options gave one (p.preload)
onPlayOptions(s, data) ==
    LET merged == Merge(s.playOptions, OrEmptyObject(data))
    IN [s EXCEPT !.playOptions = merged,
                 !.options.playOptions = IF @.isNull THEN @ ELSE merged]

\* onSinglePlay
onSinglePlay(s) == [s EXCEPT !.singlePlay = TRUE]

\* onClose
onClose(s) == endGame(s, "closed_container")

\* the data of the `features` message
Features(s) ==
    LET hasSound == "sound" \in s.subsystems
    IN [learning |-> s.learning # "null", sound |-> hasSound,
        hints |-> "hints" \in s.subsystems,
        music |-> hasSound /\ "music" \in s.subsystems,
        vo |-> hasSound /\ "vo" \in s.subsystems,
        sfx |-> hasSound /\ "sfx" \in s.subsystems,
        captions |-> "captions" \in s.subsystems]

\* (mutant) autoPause is left as it was
PreloadSupported_KeepsAutoPause(s) ==
    LET s0 == Effect([s EXCEPT !.handlers = TRUE], "messenger", "on", NoData)
        s1 == MessengerSend(s0, "preload", "features", Features(s))
    IN IF s1.thrown THEN s1
       ELSE [Effect(s1, "pageVisibility", "new", NoData) EXCEPT
                !.pageVisibility = "PageVisibility", !.watcher = "enabled"]

\* the part of p.preload that runs when messenger.supported: the handlers
\* are registered, `features` is sent, autoPause is turned off and the
\* visibility watcher is created
PreloadSupported(s) ==
    LET s0 == Effect([s EXCEPT !.handlers = TRUE], "messenger", "on", NoData)
        s1 == MessengerSend(s0, "preload", "features", Features(s))
    IN IF s1.thrown THEN s1
       ELSE [Effect(Effect(s1, "autoPause", "false", NoData),
                    "pageVisibility", "new", NoData) EXCEPT
                !.autoPause = FALSE, !.pageVisibility = "PageVisibility",
                !.watcher = "enabled"]

\* (mutant) the container is wired whether the messenger is supported or not
preload_IgnoresSupported(s) ==
    LET s1 == [s EXCEPT !.singlePlay = s.options.singlePlay,
                        !.playOptions = OrEmptyObject(s.options.playOptions)]
        s2 == IF s1.messenger = "null" THEN Throw(s1, "preload")
              ELSE PreloadSupported(s1)
    IN IF s2.thrown THEN s2
       ELSE [Effect(s2, "done", "preload", NoData) EXCEPT !.preloaded = TRUE]

\* p.preload(done)
preload(s) ==
    LET s1 == [s EXCEPT !.singlePlay = s.options.singlePlay,
                        !.playOptions = OrEmptyObject(s.options.playOptions)]
        s2 == IF s1.messenger = "null" THEN Throw(s1, "preload")
              ELSE IF s1.supported THEN PreloadSupported(s1)
              ELSE s1
    IN IF s2.thrown THEN s2
       ELSE [Effect(s2, "done", "preload", NoData) EXCEPT !.preloaded = TRUE]

\* the visibility watcher's callbacks: messenger.send.bind(messenger, 'focus', v)
\* on the Bellhop object the watcher was given
onShow(s) == BellhopSend(s, "focus", TRUE)

onHide(s) == BellhopSend(s, "focus", FALSE)

\* ---------------------------------------------------------------- setup
\* the state before any plugin's setup has run: the application is neither
\* paused nor muted and the caption text element has no class
Blank(sup, opts, subs, order) ==
    [supported |-> sup, messenger |-> "null", messengerDestroyed |-> FALSE,
     sent |-> <<>>, sentAfterDestroy |-> FALSE, handlers |-> FALSE,
     autoPause |-> TRUE, pageVisibility |-> "null", watcher |-> "none",
     singlePlay |-> FALSE, playOptions |-> NullObject, options |-> opts,
     subsystems |-> subs, paused |-> FALSE, enabled |-> TRUE,
     soundMuteAll |-> FALSE, contextMute |-> [c \in Contexts |-> FALSE],
     captionsMuteAll |-> FALSE, className |-> "",
     teardownOrder |-> order, onunload |-> FALSE,
     onbeforeunload |-> FALSE,
     listeners |-> <<>>, learning |-> "null", learningMap |-> "unset",
     learningSpec |-> "unset", learningCalls |-> <<>>, preloaded |-> FALSE,
     endGameEvents |-> <<>>, busLog |-> <<>>, inbound |-> <<>>,
     destroyCalls |-> 0, errors |-> {},
     trace |-> <<>>, thrown |-> FALSE, emit |-> <<>>]

\* (mutant) `loaded` is subscribed with on() instead of once()
ContainerSetup_OnLoaded(s) ==
    LET s1 == [s EXCEPT !.messenger = "Bellhop"]
        s2 == On(On(On(s1, "learningEvent", "container.learningEvent"),
                    "analyticEvent", "container.analyticEvent"),
                 "loaded", "container.loaded")
    IN [s2 EXCEPT !.singlePlay = FALSE, !.playOptions = NullObject,
                  !.onunload = TRUE, !.onbeforeunload = TRUE]

\* ContainerPlugin's p.setup
ContainerSetup(s) ==
    LET s1 == [s EXCEPT !.messenger = "Bellhop"]
        s2 == Once(On(On(s1, "learningEvent", "container.learningEvent"),
                      "analyticEvent", "container.analyticEvent"),
                   "loaded", "container.loaded")
    IN [s2 EXCEPT !.singlePlay = FALSE, !.playOptions = NullObject,
                  !.onunload = TRUE, !.onbeforeunload = TRUE]

\* (mutant) `configLoaded` is subscribed with on() instead of once()
LearningSetup_OnConfigLoaded(s) ==
    Once(Once(On([s EXCEPT !.learning = "Learning"],
                 "configLoaded", "learning.configLoaded"),
              "endGame", "learning.endGame"),
         "init", "learning.init")

\* (mutant) `init` is subscribed with on() instead of once()
LearningSetup_OnInit(s) ==
    On(Once(Once([s EXCEPT !.learning = "Learning"],
                 "configLoaded", "learning.configLoaded"),
            "endGame", "learning.endGame"),
       "init", "learning.init")

\* the Learning plugin's plugin.setup
LearningSetup(s) ==
    Once(Once(Once([s EXCEPT !.learning = "Learning"],
                   "configLoaded", "learning.configLoaded"),
              "endGame", "learning.endGame"),
         "init", "learning.init")

\* the application once both plugins are set up
Constructed(sup, opts, subs, order) ==
    LearningSetup(ContainerSetup(Blank(sup, opts, subs, order)))

\* ------------------------------------------------------ the state machine
\* the state an entry ends in becomes the next state
Commit(s, call) ==
    /\ steps' = steps + 1
    /\ supported' = s.supported
    /\ messenger' = s.messenger
    /\ messengerDestroyed' = s.messengerDestroyed
    /\ sent' = s.sent
    /\ sentAfterDestroy' = s.sentAfterDestroy
    /\ handlers' = s.handlers
    /\ autoPause' = s.autoPause
    /\ pageVisibility' = s.pageVisibility
    /\ watcher' = s.watcher
    /\ singlePlay' = s.singlePlay
    /\ playOptions' = s.playOptions
    /\ options' = s.options
    /\ subsystems' = s.subsystems
    /\ paused' = s.paused
    /\ enabled' = s.enabled
    /\ soundMuteAll' = s.soundMuteAll
    /\ contextMute' = s.contextMute
    /\ captionsMuteAll' = s.captionsMuteAll
    /\ className' = s.className
    /\ teardownOrder' = s.teardownOrder
    /\ onunload' = s.onunload
    /\ onbeforeunload' = s.onbeforeunload
    /\ listeners' = s.listeners
    /\ learning' = s.learning
    /\ learningMap' = s.learningMap
    /\ learningSpec' = s.learningSpec
    /\ learningCalls' = s.learningCalls
    /\ preloaded' = s.preloaded
    /\ endGameEvents' = s.endGameEvents
    /\ busLog' = s.busLog
    /\ inbound' = s.inbound
    /\ destroyCalls' = s.destroyCalls
    /\ errors' = s.errors
    /\ last' = [call |-> call, trace |-> s.trace]

\* the entry's call: an operation and its argument
Call(op, arg) == [op |-> op, arg |-> arg]

Init ==
    \E sup \in BOOLEAN :
    \E opts \in OptionChoices, subs \in SubsystemsFor(sup),
       order \in TeardownOrders :
        LET s == Constructed(sup, opts, subs, order)
        IN /\ supported = s.supported
           /\ messenger = s.messenger
           /\ messengerDestroyed = s.messengerDestroyed
           /\ sent = s.sent
           /\ sentAfterDestroy = s.sentAfterDestroy
           /\ handlers = s.handlers
           /\ autoPause = s.autoPause
           /\ pageVisibility = s.pageVisibility
           /\ watcher = s.watcher
           /\ singlePlay = s.singlePlay
           /\ playOptions = s.playOptions
           /\ options = s.options
           /\ subsystems = s.subsystems
           /\ paused = s.paused
           /\ enabled = s.enabled
           /\ soundMuteAll = s.soundMuteAll
           /\ contextMute = s.contextMute
           /\ captionsMuteAll = s.captionsMuteAll
           /\ className = s.className
           /\ teardownOrder = s.teardownOrder
           /\ onunload = s.onunload
           /\ onbeforeunload = s.onbeforeunload
           /\ listeners = s.listeners
           /\ learning = s.learning
           /\ learningMap = s.learningMap
           /\ learningSpec = s.learningSpec
           /\ learningCalls = s.learningCalls
           /\ preloaded = s.preloaded
           /\ endGameEvents = s.endGameEvents
           /\ busLog = s.busLog
           /\ inbound = s.inbound
           /\ destroyCalls = s.destroyCalls
           /\ errors = s.errors
           /\ last = [call |-> Call("construct", NoData), trace |-> <<>>]
           /\ steps = 0

\* an entry in which the dispatcher emits nothing of its own
NoEmit == <<>>

\* entries are explored up to the bound
Live == steps < MaxSteps

\* the framework runs the preload phase once, on a live application
Preload ==
    /\ Live
    /\ ~preloaded
    /\ destroyCalls = 0
    /\ Commit(preload(Cur(NoEmit)), Call("preload", NoData))

\* the game or the framework triggers an event on the application bus
TriggerLearningEvent ==
    /\ Live
    /\ \E d \in Data :
           Commit(Trigger(Cur(NoEmit), "learningEvent", d),
                  Call("trigger:learningEvent", d))

TriggerAnalyticEvent ==
    /\ Live
    /\ \E d \in Data :
           Commit(Trigger(Cur(NoEmit), "analyticEvent", d),
                  Call("trigger:analyticEvent", d))

TriggerLoaded ==
    /\ Live
    /\ Commit(Trigger(Cur(NoEmit), "loaded", NoData),
              Call("trigger:loaded", NoData))

TriggerConfigLoaded ==
    /\ Live
    /\ \E c \in Configs :
           Commit(Trigger(Cur(NoEmit), "configLoaded", c),
                  Call("trigger:configLoaded", c))

TriggerInit ==
    /\ Live
    /\ \E em \in EmitChoices :
           Commit(Trigger(Cur(em), "init", NoData),
                  Call("trigger:init", NoData))

\* the live dispatcher emits a learningEvent
DispatcherEmit ==
    /\ Live
    /\ learning # "null"
    /\ \E d \in Data :
        Commit(LearningEmit(Cur(NoEmit), <<d>>), Call("emit", d))

\* the page is shown or hidden while the visibility watcher is enabled
PageShow ==
    /\ Live
    /\ watcher = "enabled"
    /\ Commit(onShow(Cur(NoEmit)), Call("show", NoData))

PageHide ==
    /\ Live
    /\ watcher = "enabled"
    /\ Commit(onHide(Cur(NoEmit)), Call("hide", NoData))

\* the browser fires the hook, if it holds the handler
WindowUnload ==
    /\ Live
    /\ onunload
    /\ \E em \in EmitChoices :
        Commit(onWindowUnload(Cur(em)), Call("unload", NoData))

WindowBeforeUnload ==
    /\ Live
    /\ onbeforeunload
    /\ \E em \in EmitChoices :
        Commit(onWindowUnload(Cur(em)), Call("beforeunload", NoData))

\* a message from the container reaches a registered handler
InboundSinglePlay ==
    /\ Live
    /\ handlers /\ ~messengerDestroyed
    /\ Commit(onSinglePlay(Received(Cur(NoEmit), "singlePlay")),
              Call("message:singlePlay", NoData))

InboundPause ==
    /\ Live
    /\ handlers /\ ~messengerDestroyed
    /\ \E v \in FlagData :
        Commit(onPause(Received(Cur(NoEmit), "pause"), v), Call("message:pause", v))

InboundSoundMuted ==
    /\ Live
    /\ handlers /\ ~messengerDestroyed
    /\ \E v \in FlagData :
        Commit(onSoundMuted(Received(Cur(NoEmit), "soundMuted"), v),
               Call("message:soundMuted", v))

InboundCaptionsMuted ==
    /\ Live
    /\ handlers /\ ~messengerDestroyed
    /\ \E v \in FlagData :
        Commit(onCaptionsMuted(Received(Cur(NoEmit), "captionsMuted"), v),
               Call("message:captionsMuted", v))

\* musicMuted, voMuted, sfxMuted
InboundContextMuted ==
    /\ Live
    /\ handlers /\ ~messengerDestroyed
    /\ \E c \in Contexts, v \in FlagData :
        Commit(onContextMuted(Received(Cur(NoEmit), c \o "Muted"), c, v),
               Call("message:" \o c \o "Muted", v))

InboundCaptionsStyles ==
    /\ Live
    /\ handlers /\ ~messengerDestroyed
    /\ \E st \in StyleChoices :
        Commit(onCaptionsStyles(Received(Cur(NoEmit), "captionsStyles"), st),
               Call("message:captionsStyles", st))

InboundPlayOptions ==
    /\ Live
    /\ handlers /\ ~messengerDestroyed
    /\ \E d \in PlayOptionsData :
        Commit(onPlayOptions(Received(Cur(NoEmit), "playOptions"), d),
               Call("message:playOptions", d))

InboundClose ==
    /\ Live
    /\ handlers /\ ~messengerDestroyed
    /\ \E em \in EmitChoices :
        Commit(onClose(Received(Cur(em), "close")), Call("message:close", NoData))

\* the game calls the operations mixed into the application
SinglePlayEnd ==
    /\ Live
    /\ \E em \in EmitChoices :
           Commit(singlePlayEnd(Cur(em)), Call("singlePlayEnd", NoData))

EndGame ==
    /\ Live
    /\ \E x \in ExitArgs, em \in EmitChoices :
           Commit(endGame(Cur(em), x), Call("endGame", x))

Next ==
    \/ Preload
    \/ TriggerLearningEvent
    \/ TriggerAnalyticEvent
    \/ TriggerLoaded
    \/ TriggerConfigLoaded
    \/ TriggerInit
    \/ DispatcherEmit
    \/ PageShow
    \/ PageHide
    \/ WindowUnload
    \/ WindowBeforeUnload
    \/ InboundPause
    \/ InboundSoundMuted
    \/ InboundCaptionsMuted
    \/ InboundContextMuted
    \/ InboundCaptionsStyles
    \/ InboundPlayOptions
    \/ InboundSinglePlay
    \/ InboundClose
    \/ SinglePlayEnd
    \/ EndGame

Spec == Init /\ [][Next]_vars

\* ------------------------------------------------------------ properties
\* the positions of the effects of one kind and name in a trace
At(tr, kind, name) == {i \in DOMAIN tr : tr[i].kind = kind /\ tr[i].name = name}

\* the positions of the effects of one kind in a trace
AtKind(tr, kind) == {i \in DOMAIN tr : tr[i].kind = kind}

\* how many entries of a log carry the name
Count(log, name) == Cardinality({i \in DOMAIN log : log[i].name = name})

\* how many times a value occurs in a sequence
Occurrences(seq, v) == Cardinality({i \in DOMAIN seq : seq[i] = v})

\* the entries that call endGame, and the exit reason each must give
EndGameOps == {"endGame", "singlePlayEnd", "unload", "beforeunload", "message:close"}

ExpectedReason(call) ==
    CASE call.op = "endGame" ->
             IF call.arg = "undefined" THEN "game_completed" ELSE call.arg
      [] call.op = "singlePlayEnd" -> "game_completed"
      [] call.op \in {"unload", "beforeunload"} -> "left_site"
      [] call.op = "message:close" -> "closed_container"

\* the entry that has just run called endGame
CalledEndGame ==
    /\ last.call.op \in EndGameOps
    /\ (last.call.op = "singlePlayEnd" => singlePlay)

\* the effects of the listeners of `endGame`, and the effects of the teardowns
ListenerEffects(tr) ==
    At(tr, "learning", "endGame") \cup AtKind(tr, "emit")
        \cup At(tr, "trigger", "learningEvent") \cup At(tr, "send", "learningEvent")

TeardownEffects(tr) ==
    AtKind(tr, "teardown") \cup AtKind(tr, "pageVisibility")
        \cup AtKind(tr, "messenger") \cup At(tr, "send", "endGame")
        \cup At(tr, "learning", "destroy")

C2_TeardownOrder ==
    LET tr == last.trace
        td == At(tr, "teardown", "container")
        pv == At(tr, "pageVisibility", "destroy")
        snd == At(tr, "send", "endGame")
        md == At(tr, "messenger", "destroy")
    IN /\ \A i \in pv : i - 1 \in td /\ i + 1 \in snd
       /\ \A i \in snd : (i - 1 \in pv \/ i - 1 \in td) /\ i + 1 \in md
       /\ \A i \in md : i - 1 \in snd
       /\ ~sentAfterDestroy
       /\ messengerDestroyed <=> messenger = "null"
       /\ messengerDestroyed => watcher # "enabled" /\ pageVisibility = "null"
       /\ Count(sent, "endGame") = IF messengerDestroyed THEN 1 ELSE 0

\* C2 witness: a teardown that disposed a watcher, sent the final message and
\* destroyed the messenger
C2_Witness ==
    /\ At(last.trace, "pageVisibility", "destroy") # {}
    /\ At(last.trace, "messenger", "destroy") # {}
    /\ watcher = "destroyed"
    /\ messenger = "null"
    /\ Count(sent, "endGame") = 1

\* the sites at which this.messenger.send is called
MessengerSites == {"learningEvent", "analyticEvent", "loaded", "teardown", "preload"}

\* C3: no message is sent on the destroyed messenger, and no send is
\* attempted on the released (null) messenger
C3_NoSendAfterDestroy ==
    /\ ~sentAfterDestroy
    /\ errors \cap MessengerSites = {}

\* C4: a call of singlePlayEnd() in single-play mode triggers the `endGame`
\* event once, with 'game_completed', and then destroys the application
C4_SinglePlayEnd ==
    (last.call.op = "singlePlayEnd" /\ singlePlay) =>
        LET tr == last.trace
            trig == At(tr, "trigger", "endGame")
            des == AtKind(tr, "destroy")
        IN /\ Cardinality(trig) = 1
           /\ \A i \in trig : tr[i].data = "game_completed"
           /\ Cardinality(des) = 1
           /\ \A i \in trig, j \in des : i < j
           /\ endGameEvents[Len(endGameEvents)] = "game_completed"
           /\ destroyCalls >= 1

\* C4 witness: the container sent `singlePlay` (the options did not ask for
\* it), singlePlayEnd() was called and the application was destroyed
C4_Witness ==
    /\ last.call.op = "singlePlayEnd"
    /\ ~options.singlePlay
    /\ Occurrences(inbound, "singlePlay") = 1
    /\ endGameEvents = <<"game_completed">>
    /\ destroyCalls = 1
    /\ messenger = "null"

\* the program's state: every variable but the records of the exploration
progVars == <<supported, messenger, messengerDestroyed, sent, sentAfterDestroy,
              handlers, autoPause, pageVisibility, watcher, singlePlay,
              playOptions, options, subsystems, paused, enabled, soundMuteAll,
              contextMute, captionsMuteAll, className, teardownOrder, onunload,
              onbeforeunload, listeners, learning, learningMap, learningSpec,
              learningCalls, preloaded, endGameEvents, busLog, inbound,
              destroyCalls, errors>>

\* C5 as claimed: singlePlayEnd() is a no-op whenever no `singlePlay` message
\* has been received
C5_NoOpWithoutMessage ==
    [][(last'.call.op = "singlePlayEnd" /\ Occurrences(inbound, "singlePlay") = 0)
          => (UNCHANGED progVars /\ last'.trace = <<>>)]_vars

\* C5 amended: singlePlayEnd() is a no-op whenever singlePlay is false (no
\* `singlePlay` message received, and no true options.singlePlay copied by
\* preload): no event, no destroy, no message, no change of state
C5_NoOpWhenNotSinglePlay ==
    [][(last'.call.op = "singlePlayEnd" /\ ~singlePlay)
          => (UNCHANGED progVars /\ last'.trace = <<>>)]_vars

\* C5 witness: singlePlayEnd() was called after preload with singlePlay
\* false, and nothing has happened
C5_Witness ==
    /\ last.call.op = "singlePlayEnd"
    /\ preloaded
    /\ ~singlePlay
    /\ endGameEvents = <<>>
    /\ destroyCalls = 0
    /\ messenger = "Bellhop"

\* C6: the unload handler is installed on both hooks; when it fires it clears
\* both hooks and then calls endGame('left_site'); whatever the firings,
\* 'left_site' is given at most once
C6_UnloadOnce ==
    /\ Occurrences(endGameEvents, "left_site") <= 1
    /\ onunload = onbeforeunload
    /\ onunload <=> Occurrences(endGameEvents, "left_site") = 0
    /\ last.call.op \in {"unload", "beforeunload"} =>
          /\ Len(last.trace) >= 2
          /\ last.trace[1].kind = "window" /\ last.trace[1].name = "clearHooks"
          /\ last.trace[2].kind = "trigger" /\ last.trace[2].name = "endGame"
          /\ last.trace[2].data = "left_site"

\* C6 witness: the handler fired once, from onbeforeunload, both hooks are
\* clear and a later entry has ended the game again
C6_Witness ==
    /\ endGameEvents = <<"left_site", "game_completed">>
    /\ ~onunload /\ ~onbeforeunload
    /\ last.call.op = "endGame"

\* C7: `loadDone` is sent at most once; it is sent by the first `loaded`
\* event of the application's lifetime and by no later one
C7_LoadDoneOnce ==
    /\ Count(sent, "loadDone") <= 1
    /\ "loaded" \notin errors =>
          Count(sent, "loadDone") = IF Count(busLog, "loaded") > 0 THEN 1 ELSE 0

\* C7 witness: `loaded` was triggered twice and one loadDone was sent
C7_Witness ==
    /\ Count(busLog, "loaded") >= 2
    /\ Count(sent, "loadDone") = 1

\* the learningEvent and analyticEvent entries of a log
Forwarded(log) ==
    SelectSeq(log, LAMBDA e : e.name \in {"learningEvent", "analyticEvent"})

\* C8: until teardown the messenger has been sent, in order, one message for
\* every learningEvent and analyticEvent on the bus, with the event's name and
\* data; an event the dispatcher emits gives one bus event and one message
C8_ForwardedVerbatim ==
    /\ [](messenger = "Bellhop" => Forwarded(sent) = Forwarded(busLog))
    /\ [][(last'.call.op = "emit" /\ messenger = "Bellhop") =>
             /\ sent' = Append(sent, [name |-> "learningEvent",
                                     data |-> last'.call.arg])
             /\ busLog' = Append(busLog, [name |-> "learningEvent",
                                         data |-> last'.call.arg])]_vars

\* C8 witness: an analyticEvent and then a learningEvent emitted by the
\* dispatcher, of different data, were forwarded in that order
C8_Witness ==
    /\ messenger = "Bellhop"
    /\ Forwarded(sent) = <<[name |-> "analyticEvent", data |-> "d1"],
                           [name |-> "learningEvent", data |-> "d2"]>>
    /\ last.call.op = "emit"
    /\ At(last.trace, "send", "learningEvent") # {}

ConfigEvents == SelectSeq(busLog, LAMBDA e : e.name = "configLoaded")

AddMapCalls == SelectSeq(learningCalls, LAMBDA c : c.method = "addMap")

\* C10: the dispatcher's dictionary and spec are installed at most once, from
\* the first configLoaded alone: with a spec in it, addMap is called with its
\* specDictionary (null when it has none) and spec is set; without one, and
\* after any later configLoaded, nothing is installed or changed
C10_ConfigInstalledOnce ==
    /\ Len(AddMapCalls) <= 1
    /\ "configLoaded" \notin errors =>
          IF ConfigEvents # <<>> /\ ConfigEvents[1].data.spec # "undefined"
          THEN LET first == ConfigEvents[1].data
                   dict == IF first.specDictionary = "undefined" THEN "null"
                           ELSE first.specDictionary
               IN /\ learningSpec = first.spec
                  /\ learningMap = dict
                  /\ AddMapCalls = <<[method |-> "addMap", arg |-> dict]>>
          ELSE /\ learningSpec = "unset"
               /\ learningMap = "unset"
               /\ AddMapCalls = <<>>

\* C10 witness: two configurations with different specs were loaded and the
\* first one's spec, with a null dictionary, is the one installed
C10_Witness ==
    /\ Len(ConfigEvents) >= 2
    /\ ConfigEvents[1].data.spec = "spec1"
    /\ ConfigEvents[2].data.spec = "spec2"
    /\ learningSpec = "spec1"
    /\ learningMap = "null"

\* C11: a `pause` message with data v sets paused to the boolean value of v
\* (true for true; false for false and for no data) and enabled to the
\* negation of paused; nothing else changes the two flags, so after any
\* sequence of messages they reflect the last `pause`
C11_PauseSetsFlags ==
    [][IF last'.call.op = "message:pause"
       THEN /\ paused' = (last'.call.arg = "true")
            /\ enabled' = ~paused'
       ELSE UNCHANGED <<paused, enabled>>]_vars

\* C11 witness: a second `pause` message, with data true, has left the
\* application paused and disabled
C11_Witness ==
    /\ last.call.op = "message:pause"
    /\ last.call.arg = "true"
    /\ Occurrences(inbound, "pause") = 2
    /\ paused
    /\ ~enabled

\* the value an object has for a key
ValueOf(o, k) == CHOOSE v \in {p[2] : p \in o.kv} : <<k, v>> \in o.kv

\* C12: a `playOptions` message merges its data into the play options: every
\* key of the message has the message's value afterwards, every other key
\* keeps the value it had, no key is removed and none appears from nowhere;
\* a message without data changes nothing
C12_PlayOptionsMerged ==
    [][last'.call.op = "message:playOptions" =>
          LET d == last'.call.arg
              old == playOptions
              new == playOptions'
          IN /\ ~new.isNull
             /\ Cardinality(new.kv) = Cardinality(Keys(new))
             /\ d.isNull => new = old
             /\ Keys(new) = Keys(old) \cup Keys(d)
             /\ \A k \in Keys(d) : ValueOf(new, k) = ValueOf(d, k)
             /\ \A k \in Keys(old) \ Keys(d) : ValueOf(new, k) = ValueOf(old, k)]_vars

\* C12 witness: the options gave {a: 1}, the container sent {b: 2} and then
\* {a: 3}: b is kept, a is overwritten
C12_Witness ==
    /\ last.call.op = "message:playOptions"
    /\ last.call.arg = Object({<<"a", 3>>})
    /\ Occurrences(inbound, "playOptions") = 2
    /\ playOptions = Object({<<"a", 3>>, <<"b", 2>>})

\* the messages that mute the sound, a sound context, or the captions
SoundMuteOps == {"message:soundMuted", "message:musicMuted", "message:voMuted",
                 "message:sfxMuted"}

CaptionsMuteOps == {"message:captionsMuted"}

\* C13: a mute message for a subsystem the application does not have (sound
\* for soundMuted, musicMuted, voMuted and sfxMuted; captions for
\* captionsMuted) raises no error, as a `captionsStyles` message without a
\* caption text element raises none
C13_AbsentSubsystemNoError ==
    \/ /\ last.call.op \in SoundMuteOps
       /\ "sound" \notin subsystems
    \/ /\ last.call.op \in CaptionsMuteOps
       /\ "captions" \notin subsystems
    \/ /\ last.call.op = "message:captionsStyles"
       /\ ~HasTextField([subsystems |-> subsystems])
    => AtKind(last.trace, "TypeError") = {}

\* the game has started: the application's `init` event has been triggered
GameStarted == Count(busLog, "init") > 0

\* C14: singlePlay and playOptions are set from the options by preload and
\* are afterwards changed by nothing but a `singlePlay` / `playOptions`
\* message, and by such a message only if it is the first of its name and
\* the game has not started
C14_SetOnceThenOneMessage ==
    [][/\ singlePlay' # singlePlay =>
             \/ last'.call.op = "preload"
             \/ /\ last'.call.op = "message:singlePlay"
                /\ Occurrences(inbound, "singlePlay") = 0
                /\ ~GameStarted
       /\ playOptions' # playOptions =>
             \/ last'.call.op = "preload"
             \/ /\ last'.call.op = "message:playOptions"
                /\ Occurrences(inbound, "playOptions") = 0
                /\ ~GameStarted]_vars

\* the positions of the calls of one method of the dispatcher
CallsOf(method) == {i \in DOMAIN learningCalls : learningCalls[i].method = method}

\* C15: whatever `init` and `endGame` events are triggered, the dispatcher's
\* startGame() is called once, by the first `init` event, and by no later
\* one; its endGame is called once, by the first `endGame` event and with
\* that event's exit type; and neither is called once teardown has destroyed
\* the dispatcher (an `init` that comes after teardown calls nothing)
C15_StartAndEndOnce ==
    /\ Cardinality(CallsOf("startGame")) =
          IF Count(busLog, "init") > 0 /\ "init" \notin errors THEN 1 ELSE 0
    /\ Cardinality(CallsOf("endGame")) = IF endGameEvents # <<>> THEN 1 ELSE 0
    /\ \A i \in CallsOf("endGame") : learningCalls[i].arg = endGameEvents[1]
    /\ \A d \in CallsOf("destroy"), i \in CallsOf("startGame") \cup CallsOf("endGame") :
          i < d
    /\ "init" \in errors => learning = "null"

\* C15 witness: `init`, then two `endGame` events of different exit types:
\* the dispatcher was started once and ended once, with the first exit type,
\* before it was destroyed
C15_Witness ==
    /\ endGameEvents = <<"custom_exit", "game_completed">>
    /\ Count(busLog, "init") = 1
    /\ learningCalls = <<[method |-> "startGame", arg |-> NoData],
                         [method |-> "endGame", arg |-> "custom_exit"],
                         [method |-> "destroy", arg |-> NoData]>>

\* the application's state but for the record of the messages received
appVars == <<supported, messenger, messengerDestroyed, sent, sentAfterDestroy,
             handlers, autoPause, pageVisibility, watcher, singlePlay,
             playOptions, options, subsystems, paused, enabled, soundMuteAll,
             contextMute, captionsMuteAll, className, teardownOrder, onunload,
             onbeforeunload, listeners, learning, learningMap, learningSpec,
             learningCalls, preloaded, endGameEvents, busLog, destroyCalls,
             errors>>

\* C16: a `captionsStyles` message sets the class string of the caption text
\* element to the six prefixed style fields, in the order size, bg, color,
\* edge, font, align, separated by single spaces, whatever the class string
\* was; without a caption text element the message changes nothing; nothing
\* else changes the class string
C16_CaptionsStylesClass ==
    [][IF last'.call.op = "message:captionsStyles"
       THEN LET st == last'.call.arg
            IN IF {"captions", "textField", "nodeName"} \subseteq subsystems
               THEN className' =
                        "size-" \o st.size \o " bg-" \o st.background
                        \o " color-" \o st.color \o " edge-" \o st.edge
                        \o " font-" \o st.font \o " align-" \o st.align
               ELSE UNCHANGED appVars /\ last'.trace = <<>>
       ELSE UNCHANGED className]_vars

\* C16 witness: the second `captionsStyles` message, with the styles lg,
\* black, white, none, arial, left, has given the text element this class
C16_Witness ==
    /\ last.call.op = "message:captionsStyles"
    /\ last.call.arg.size = "lg"
    /\ Occurrences(inbound, "captionsStyles") = 2
    /\ className = "size-lg bg-black color-white edge-none font-arial align-left"

\* C17: whatever entries end the game (a `close` message, singlePlayEnd() in
\* single-play mode, endGame(), the window's unload hooks), and in whatever
\* order, the `endGame` event is triggered at most once and the application
\* is destroyed, and ContainerPlugin's teardown with it run, at most once
C17_EndGameOnce ==
    /\ Len(endGameEvents) <= 1
    /\ destroyCalls <= 1

\* the kinds and names of the effects of an entry, in order
Shape(tr) == [i \in DOMAIN tr |-> <<tr[i].kind, tr[i].name>>]

\* C18: with a supported messenger preload registers the inbound handlers,
\* sends `features` (the only one there ever is), turns autoPause off and
\* creates the visibility watcher, and only then calls done(); while the
\* watcher lives every page-show sends `focus` true and every page-hide
\* `focus` false, and nothing else sends `focus`: none is sent once teardown
\* has disposed of the watcher
C18_PreloadWiresThenFocus ==
    /\ [](/\ Count(sent, "features") = IF supported /\ preloaded THEN 1 ELSE 0
          /\ (supported /\ preloaded) =>
                 /\ handlers
                 /\ ~autoPause
                 /\ watcher # "none"
          /\ (supported /\ last.call.op = "preload") =>
                 /\ Shape(last.trace) = <<<<"messenger", "on">>, <<"send", "features">>,
                                          <<"autoPause", "false">>,
                                          <<"pageVisibility", "new">>,
                                          <<"done", "preload">>>>
                 /\ watcher = "enabled"
                 /\ pageVisibility = "PageVisibility")
    /\ [][/\ last'.call.op = "show" =>
                sent' = Append(sent, [name |-> "focus", data |-> TRUE])
          /\ last'.call.op = "hide" =>
                sent' = Append(sent, [name |-> "focus", data |-> FALSE])
          /\ last'.call.op \notin {"show", "hide"} =>
                Count(sent', "focus") = Count(sent, "focus")
          /\ watcher = "destroyed" =>
                /\ Count(sent', "focus") = Count(sent, "focus")
                /\ watcher' = "destroyed"]_vars

\* C18 witness: after preload the page was shown and then hidden: `features`,
\* `focus` true and `focus` false were sent, in that order
C18_Witness ==
    /\ supported /\ preloaded /\ handlers /\ ~autoPause
    /\ Len(sent) = 3
    /\ sent[1].name = "features"
    /\ sent[2].name = "focus" /\ sent[2].data = TRUE
    /\ sent[3].name = "focus" /\ sent[3].data = FALSE
    /\ last.call.op = "hide"

C20_LearningTeardownIdempotent ==
    /\ [](/\ Cardinality(CallsOf("destroy")) <= 1
          /\ CallsOf("destroy") # {} <=> learning = "null")
    /\ [][LET tr == last'.trace
              td == At(tr, "teardown", "learning")
          IN td # {} =>
                /\ learning' = "null"
                /\ IF learning = "null"
                   THEN /\ learningCalls' = learningCalls
                        /\ UNCHANGED <<learningMap, learningSpec>>
                        /\ \A i \in td : i < Len(tr) =>
                              tr[i + 1].kind \notin {"learning", "TypeError"}
                   ELSE /\ \A i \in td : /\ i < Len(tr)
                                         /\ tr[i + 1].kind = "learning"
                                         /\ tr[i + 1].name = "destroy"
                        /\ learningCalls'[Len(learningCalls')].method = "destroy"]_vars

\* C20 witness: the application was destroyed twice, the Learning plugin's
\* teardown ran both times (it comes first), and the dispatcher was destroyed
\* once
C20_Witness ==
    /\ destroyCalls = 2
    /\ teardownOrder[1] = "learning"
    /\ At(last.trace, "teardown", "learning") # {}
    /\ At(last.trace, "learning", "destroy") = {}
    /\ Cardinality(CallsOf("destroy")) = 1
    /\ learning = "null"

====
